---------------------------- MODULE Spec2Model ----------------------------
(***************************************************************************)
(* CAW8Bookkeeper: src/src/parseSheets.ts.                                 *)
(*                                                                         *)
(* A spreadsheet document is a sequence of sheets; a sheet is a grid of    *)
(* cells.  Op.fromSheet cuts a grid into operation blocks, and             *)
(* GoogleSheetParser.run replays every participant through the blocks,     *)
(* keeping two rolling counters and emitting streak achievements.          *)
(*                                                                         *)
(* A JavaScript string is a sequence of one-character strings, and a cell  *)
(* value is a tagged record, so that text, numbers, booleans, null and     *)
(* undefined stay apart as they do at run time.                            *)
(***************************************************************************)
EXTENDS Integers, Sequences, FiniteSets

-----------------------------------------------------------------------------
(* Values of the JavaScript run time.                                      *)

Null == [t |-> "null"]
Undefined == [t |-> "undefined"]
Str(s) == [t |-> "string", s |-> s]
Num(n) == [t |-> "number", n |-> n]
Bool(b) == [t |-> "boolean", b |-> b]

\* The result of parseInt / ToNumber: NaN, or an integer.
NaN == [nan |-> TRUE, n |-> 0]
Numeric(n) == [nan |-> FALSE, n |-> n]

Digits == <<"0", "1", "2", "3", "4", "5", "6", "7", "8", "9">>
UpperChars == <<"A", "B", "C", "D", "E", "F", "G", "H", "I", "J", "K", "L", "M",
                "N", "O", "P", "Q", "R", "S", "T", "U", "V", "W", "X", "Y", "Z">>
LowerChars == <<"a", "b", "c", "d", "e", "f", "g", "h", "i", "j", "k", "l", "m",
                "n", "o", "p", "q", "r", "s", "t", "u", "v", "w", "x", "y", "z">>
WhiteSpace == {" ", "\t", "\n"}

DigitValues == [c \in {Digits[k] : k \in 1..10} |-> (CHOOSE k \in 1..10 : Digits[k] = c) - 1]
IsDigit(c) == c \in DOMAIN DigitValues
DigitVal(c) == DigitValues[c]

\* The text the sheets and the code use.
sName == <<"N", "a", "m", "e">>
sCallsign == <<"C", "a", "l", "l", "s", "i", "g", "n">>
sType == <<"T", "y", "p", "e">>
sBolters == <<"B", "o", "l", "t", "e", "r", "s">>
sWire == <<"W", "i", "r", "e", " ", "N", "o", ".">>
sLsoGrade == <<"L", "S", "O", " ", "G", "r", "a", "d", "e">>
sCombatDeaths == <<"C", "o", "m", "b", "a", "t", " ", "D", "e", "a", "t", "h", "s">>
sPromotions == <<"P", "r", "o", "m", "o", "t", "i", "o", "n", "s">>
sRemarks == <<"R", "e", "m", "a", "r", "k", "s">>
sConfig == <<"c", "o", "n", "f", "i", "g">>
sCountBolters == <<"c", "o", "u", "n", "t", " ", "b", "o", "l", "t", "e", "r", "s">>
sCountDeaths == <<"c", "o", "u", "n", "t", " ", "d", "e", "a", "t", "h", "s">>
sNull == <<"n", "u", "l", "l">>
sUndefined == <<"u", "n", "d", "e", "f", "i", "n", "e", "d">>
sTrue == <<"t", "r", "u", "e">>
sFalse == <<"f", "a", "l", "s", "e">>

\* The lower case letter of every upper case letter.
LowerOf ==
    [c \in {UpperChars[k] : k \in 1..26} |->
        LowerChars[CHOOSE k \in 1..26 : UpperChars[k] = c]]

\* String.prototype.toLowerCase
toLowerCase(s) ==
    [i \in 1..Len(s) |-> IF s[i] \in DOMAIN LowerOf THEN LowerOf[s[i]] ELSE s[i]]

RECURSIVE trimStart(_)
trimStart(s) ==
    IF s # <<>> /\ Head(s) \in WhiteSpace THEN trimStart(Tail(s)) ELSE s

RECURSIVE trimEnd(_)
trimEnd(s) ==
    IF s # <<>> /\ s[Len(s)] \in WhiteSpace
    THEN trimEnd(SubSeq(s, 1, Len(s) - 1))
    ELSE s

\* String.prototype.trim
trim(s) == trimEnd(trimStart(s))

\* Number.prototype.toString of a non-negative integer
RECURSIVE NatToString(_)
NatToString(n) ==
    IF n < 10 THEN <<Digits[n + 1]>>
    ELSE NatToString(n \div 10) \o <<Digits[(n % 10) + 1]>>

\* ToString of a value: what String(v), a template literal and v.toString()
\* produce (toString is only ever called on a value the code found truthy).
ToString(v) ==
    CASE v.t = "string" -> v.s
      [] v.t = "number" -> IF v.n < 0 THEN <<"-">> \o NatToString(-v.n)
                           ELSE NatToString(v.n)
      [] v.t = "boolean" -> IF v.b THEN sTrue ELSE sFalse
      [] v.t = "null" -> sNull
      [] OTHER -> sUndefined

\* The value of the longest prefix of decimal digits of s, given the value
\* acc of the digits read so far.
RECURSIVE DigitPrefix(_, _)
DigitPrefix(s, acc) ==
    IF s # <<>> /\ IsDigit(Head(s))
    THEN DigitPrefix(Tail(s), 10 * acc + DigitVal(Head(s)))
    ELSE acc

\* parseInt(v) with no radix, on text without a 0x prefix: ToString, skip the
\* leading white space, an optional sign, then the longest run of digits;
\* NaN when there is no digit there.
ParseIntText(s) ==
    LET neg == s # <<>> /\ Head(s) = "-"
        body == IF s # <<>> /\ Head(s) \in {"-", "+"} THEN Tail(s) ELSE s
    IN  IF body = <<>> \/ ~IsDigit(Head(body)) THEN NaN
        ELSE Numeric(IF neg THEN -DigitPrefix(body, 0) ELSE DigitPrefix(body, 0))

parseInt(v) == ParseIntText(trimStart(ToString(v)))

\* ToBoolean: what `if (v)` and `!v` test.
Truthy(v) ==
    CASE v.t = "string" -> v.s # <<>>
      [] v.t = "number" -> v.n # 0
      [] v.t = "boolean" -> v.b
      [] OTHER -> FALSE

\* ToNumber of a string: white space trimmed, "" is 0, a signed run of digits
\* is its value, anything else NaN.
TrimmedToNumber(u) ==
    LET body == IF u # <<>> /\ Head(u) \in {"-", "+"} THEN Tail(u) ELSE u
    IN  IF u = <<>> THEN Numeric(0)
        ELSE IF body # <<>> /\ \A i \in 1..Len(body) : IsDigit(body[i])
        THEN ParseIntText(u)
        ELSE NaN

StringToNumber(s) == TrimmedToNumber(trim(s))

\* ToNumber of a string, number or boolean
ToNumber(v) ==
    CASE v.t = "string" -> StringToNumber(v.s)
      [] v.t = "number" -> Numeric(v.n)
      [] v.t = "boolean" -> Numeric(IF v.b THEN 1 ELSE 0)
      [] OTHER -> NaN

\* x == y of two numbers: NaN equals nothing.
NumberEq(x, y) == ~x.nan /\ ~y.nan /\ x.n = y.n

\* The == of JavaScript (loose equality).
LooseEq(a, b) ==
    IF a.t = b.t THEN a = b
    ELSE IF a.t \in {"null", "undefined"} \/ b.t \in {"null", "undefined"}
    THEN a.t \in {"null", "undefined"} /\ b.t \in {"null", "undefined"}
    ELSE NumberEq(ToNumber(a), ToNumber(b))

-----------------------------------------------------------------------------
(* enum Change and parseEvent.                                             *)

NoChange == "NoChange"
Passed == "Passed"
Failed == "Failed"

\* ChangeOf with the test num >= 0 for num > 0: a count of 0 would fail.
ChangeOfZeroFails(value, num) ==
    IF value = Undefined \/ value = Null \/ value = Str(<<>>) \/ num.nan
    THEN NoChange
    ELSE IF num.n >= 0 THEN Failed
    ELSE Passed

\* parseEvent after its first line, num being parseInt(value)
ChangeOf(value, num) ==
    IF value = Undefined \/ value = Null \/ value = Str(<<>>) \/ num.nan
    THEN NoChange
    ELSE IF num.n > 0 THEN Failed
    ELSE Passed

\* parseEvent without its first line: the config is not looked at.
parseEventAnyConfig(value, ignoreBecauseOfConfig) == ChangeOf(value, parseInt(value))

\* function parseEvent(value, ignoreBecauseOfConfig): Change
parseEvent(value, ignoreBecauseOfConfig) ==
    IF ignoreBecauseOfConfig THEN NoChange ELSE ChangeOf(value, parseInt(value))

-----------------------------------------------------------------------------
(* A worksheet: [title, hidden, cells], cells a sequence of rows of equal  *)
(* length.  The code counts rows and columns from 0.                       *)

rowCount(sheet) == Len(sheet.cells)
columnCount(sheet) == IF sheet.cells = <<>> THEN 0 ELSE Len(sheet.cells[1])

\* GoogleSpreadsheetWorksheet.getCell throws outside the grid.
InGrid(sheet, row, column) ==
    /\ 0 <= row /\ row < rowCount(sheet)
    /\ 0 <= column /\ column < columnCount(sheet)

\* sheet.getCell(row, column).value, inside the grid
getCell(sheet, row, column) == sheet.cells[row + 1][column + 1]

\* const columNameMap: the keys in declaration order, and their header text
ColumnKeys == <<"uniqueName", "callsign", "type", "bolters", "wire", "lsoGrade",
                "combatDeaths", "promotions", "remarks">>
columNameMap ==
    [uniqueName |-> sName, callsign |-> sCallsign, type |-> sType,
     bolters |-> sBolters, wire |-> sWire, lsoGrade |-> sLsoGrade,
     combatDeaths |-> sCombatDeaths, promotions |-> sPromotions,
     remarks |-> sRemarks]

\* const defaultConfig
defaultConfig == [countBolters |-> Bool(TRUE), countDeaths |-> Bool(TRUE)]

\* An inner loop that compares the text of the cell as it is, not trimmed.
RECURSIVE FindColumnNoTrim(_, _, _, _)
FindColumnNoTrim(sheet, row, key, column) ==
    IF column >= columnCount(sheet) THEN -1
    ELSE IF /\ Truthy(getCell(sheet, row, column))
            /\ ToString(getCell(sheet, row, column)) = columNameMap[key]
    THEN column
    ELSE FindColumnNoTrim(sheet, row, key, column + 1)

\* The inner loop of loadColumnMap for one key, from column on: the first
\* column of the header row whose trimmed text is the header text of the key,
\* -1 when the loop ends without one.
RECURSIVE FindColumn(_, _, _, _)
FindColumn(sheet, row, key, column) ==
    IF column >= columnCount(sheet) THEN -1
    ELSE IF /\ Truthy(getCell(sheet, row, column))
            /\ trim(ToString(getCell(sheet, row, column))) = columNameMap[key]
    THEN column
    ELSE FindColumn(sheet, row, key, column + 1)

\* The column map, columns being the outcome of the inner loop for every key:
\* a key without a column is not set.
ColumnMapOf(columns) ==
    [key \in {k \in DOMAIN columns : columns[k] # -1} |-> columns[key]]

\* Op.loadColumnMap(row)
loadColumnMap(sheet, row) ==
    ColumnMapOf([key \in {ColumnKeys[k] : k \in 1..Len(ColumnKeys)} |->
                    FindColumn(sheet, row, key, 0)])

\* member.key: undefined for a property the object does not have.
Get(member, key) == IF key \in DOMAIN member THEN member[key] ELSE Undefined

\* The member parseOpMemberRow builds in its forEach: a property for every
\* key of the mapping.
RawMember(sheet, row, mapping) ==
    [key \in DOMAIN mapping |-> getCell(sheet, row, mapping[key])]

\* Lines 121-124: [error, member].  toLowerCase is a method of strings alone:
\* a truthy name that is a number or a boolean throws.
NormalizeMember(fields) ==
    IF ~Truthy(Get(fields, "uniqueName")) THEN [error |-> "none", member |-> fields]
    ELSE IF fields["uniqueName"].t # "string"
    THEN [error |-> "TypeError", member |-> fields]
    ELSE [error |-> "none",
          member |-> [key \in DOMAIN fields \cup {"displayName"} |->
              IF key = "displayName" THEN fields["uniqueName"]
              ELSE IF key = "uniqueName" THEN Str(toLowerCase(fields["uniqueName"].s))
              ELSE fields[key]]]

\* Op.parseOpMemberRow(row, mapping): [error, member]
parseOpMemberRow(sheet, row, mapping) ==
    NormalizeMember(RawMember(sheet, row, mapping))

\* A block header: cell.value == "Name" in column 0.
IsHeader(sheet, row) == LooseEq(getCell(sheet, row, 0), Str(sName))

\* A loop that looks one row ahead for the next header, not two.
RECURSIVE LoadRowsNextRow(_, _)
LoadRowsNextRow(sheet, row) ==
    IF row >= rowCount(sheet) THEN <<>>
    ELSE IF row + 1 < rowCount(sheet) /\ IsHeader(sheet, row + 1) THEN <<>>
    ELSE <<row>> \o LoadRowsNextRow(sheet, row + 1)

\* The rows the loop of Op.load visits from row on, before its break or the
\* end of the grid.
RECURSIVE LoadRows(_, _)
LoadRows(sheet, row) ==
    IF row >= rowCount(sheet) THEN <<>>
    ELSE IF row + 2 < rowCount(sheet) /\ IsHeader(sheet, row + 2) THEN <<>>
    ELSE <<row>> \o LoadRows(sheet, row + 1)

\* this.members after the loop of Op.load, or the exception of a row:
\* [error, members].
Members(parsed) ==
    IF \E i \in 1..Len(parsed) : parsed[i].error # "none"
    THEN [error |-> "TypeError", members |-> <<>>]
    ELSE [error |-> "none", members |-> [i \in 1..Len(parsed) |-> parsed[i].member]]

\* The rows of Op.load, each through parseOpMemberRow.
ParseRows(sheet, rows, columnMap) ==
    [i \in 1..Len(rows) |-> parseOpMemberRow(sheet, rows[i], columnMap)]

\* Op.load() of the block whose header is at startRow: [error, members].
load(sheet, startRow) ==
    Members(ParseRows(sheet, LoadRows(sheet, startRow + 1),
                      loadColumnMap(sheet, startRow)))

\* The cells whose text, lowercased, is "config".
ConfigAnchors(sheet) ==
    {rc \in (0..(rowCount(sheet) - 1)) \X (0..(columnCount(sheet) - 1)) :
        /\ Truthy(getCell(sheet, rc[1], rc[2]))
        /\ toLowerCase(ToString(getCell(sheet, rc[1], rc[2]))) = sConfig}

\* The second loop of getOpConfig, from row on, in the anchor's column:
\* [error, config].  The value right of a key is read with getCell, which
\* throws when the anchor is in the last column.
\* The text of a config key cell: cell.value.toString().toLowerCase()
CellVal(sheet, row, column) == toLowerCase(ToString(getCell(sheet, row, column)))

\* A second loop that reads no key: the config stays as it is.
ConfigScanNoKey(sheet, row, configColumn, config) ==
    [error |-> "none", config |-> config]

RECURSIVE ConfigScan(_, _, _, _)
ConfigScan(sheet, row, configColumn, config) ==
    IF row >= rowCount(sheet) THEN [error |-> "none", config |-> config]
    ELSE IF ~Truthy(getCell(sheet, row, configColumn))
    THEN ConfigScan(sheet, row + 1, configColumn, config)
    ELSE IF /\ CellVal(sheet, row, configColumn) \in {sCountBolters, sCountDeaths}
            /\ ~InGrid(sheet, row, configColumn + 1)
    THEN [error |-> "OutOfBounds", config |-> config]
    ELSE ConfigScan(sheet, row + 1, configColumn,
            [countBolters |->
                IF CellVal(sheet, row, configColumn) = sCountBolters
                THEN getCell(sheet, row, configColumn + 1)
                ELSE config.countBolters,
             countDeaths |->
                IF CellVal(sheet, row, configColumn) = sCountDeaths
                THEN getCell(sheet, row, configColumn + 1)
                ELSE config.countDeaths])

\* The first of a set of cells in row-major order.
FirstCell(cells) ==
    CHOOSE a \in cells :
        \A b \in cells : a[1] < b[1] \/ (a[1] = b[1] /\ a[2] <= b[2])

\* getOpConfig once its first loop has found the anchor.
ConfigBelow(sheet, anchor) ==
    ConfigScan(sheet, anchor[1] + 1, anchor[2], defaultConfig)

\* Op.getOpConfig(sheet): [error, config]; the anchor is the first match in
\* row-major order.
getOpConfig(sheet) ==
    IF ConfigAnchors(sheet) = {} THEN [error |-> "none", config |-> defaultConfig]
    ELSE ConfigBelow(sheet, FirstCell(ConfigAnchors(sheet)))

\* An op that carries the config of its sheet only when it is the first
\* block of the sheet, the defaults otherwise.
NewOpOwnConfig(sheet, index, timeslot, opConfig, startRow, members) ==
    [name |-> sheet.title \o <<" ">> \o ToString(timeslot),
     timeslot |-> timeslot,
     config |-> IF startRow <= 1 THEN opConfig ELSE defaultConfig,
     startRow |-> startRow, members |-> members, sheet |-> index]

\* new Op(sheet, timeSlot, opConfig, row) after load(); sheet is the place of
\* the worksheet in the document (0 once deleted).
NewOp(sheet, index, timeslot, opConfig, startRow, members) ==
    [name |-> sheet.title \o <<" ">> \o ToString(timeslot),
     timeslot |-> timeslot, config |-> opConfig, startRow |-> startRow,
     members |-> members, sheet |-> index]

\* The timeslot is read from the row above the header, which getCell refuses
\* for a header in row 0.
\* ops.push(newOp) for the header at row, loaded being the outcome of its
\* load(): an exception of load() leaves fromSheet.
PushOp(sheet, index, opConfig, row, found, loaded) ==
    IF loaded.error # "none" THEN [error |-> loaded.error, ops |-> <<>>]
    ELSE [error |-> "none",
          ops |-> Append(found.ops,
                         NewOp(sheet, index, getCell(sheet, row - 1, 0),
                               opConfig, row, loaded.members))]

\* The loop of Op.fromSheet from row on, found being [error, ops] so far.
RECURSIVE FromSheetRows(_, _, _, _, _)
FromSheetRows(sheet, index, opConfig, row, found) ==
    IF row >= rowCount(sheet) \/ found.error # "none" THEN found
    ELSE IF ~IsHeader(sheet, row)
    THEN FromSheetRows(sheet, index, opConfig, row + 1, found)
    ELSE IF ~InGrid(sheet, row - 1, 0) THEN [error |-> "OutOfBounds", ops |-> <<>>]
    ELSE FromSheetRows(sheet, index, opConfig, row + 1,
                       PushOp(sheet, index, opConfig, row, found, load(sheet, row)))

\* Op.fromSheet once getOpConfig has returned or thrown.
FromSheetWith(sheet, index, opConfig) ==
    IF opConfig.error # "none" THEN [error |-> opConfig.error, ops |-> <<>>]
    ELSE FromSheetRows(sheet, index, opConfig.config, 0,
                       [error |-> "none", ops |-> <<>>])

\* Op.fromSheet(sheet): [error, ops]
fromSheet(sheet, index) == FromSheetWith(sheet, index, getOpConfig(sheet))

\* Op.getMember(name): the place in op.members of the first member whose
\* uniqueName == name, 0 when there is none.
Least(places) ==
    IF places = {} THEN 0 ELSE CHOOSE i \in places : \A j \in places : i <= j

getMember(op, name) ==
    Least({i \in 1..Len(op.members) : LooseEq(Get(op.members[i], "uniqueName"), name)})

\* The streak length that earns an award.
Threshold == 5

-----------------------------------------------------------------------------
(* Bounds.                                                                 *)

MaxRuns == 2        \* calls of run() on one parser object
MaxRows == 6        \* rows of the grid of Spec
MaxOps == 10        \* sheets (one block each) of the documents of SpecStreak
MaxOdd == 1         \* blocks of such a document that are not PP
MaxShort == 4       \* sheets of the documents of SpecStreak of any blocks
MaxStrLen == 3      \* length of the raw text given to parseEvent in SpecEvent
MaxSheets == 2      \* sheets of the documents of SpecBook without counted rows
MaxBlocks == 2      \* blocks of the sheet with a config block of SpecBook
MaxCols == 3        \* columns of the header row of SpecColumns

-----------------------------------------------------------------------------------------------------------------------------------------------------
(* The documents.  this.doc stands for a whole spreadsheet; the state      *)
(* keeps its description and sheetsByIndex gives its sheets.               *)
(*                                                                         *)
(* A "grid" document is one visible sheet W1 of two columns whose column 0 *)
(* is the described sequence of a blank cell, the header text, a pilot's   *)
(* name and the empty text; column 1 holds the Combat Deaths header and    *)
(* counts.                                                                 *)
(*                                                                         *)
(* A "streak" document has sheets W1, W2, ... of one block each: a         *)
(* timeslot row, a header row and at most one row, of the pilot Mav.       *)
(* PP: no death, no bolter.  FN: two deaths, no trap logged.  NF: no death *)
(* logged, one bolter.  absent: the block has no row.  Either at most     *)
(* MaxOps blocks, of which at most MaxOdd are not PP, or at most MaxShort  *)
(* blocks of any kind.                                                     *)

sAl == <<"A", "l">>
NameCells == {Null, Str(sName), Str(sAl), Str(<<>>)}

GridOfNames(col0) ==
    [i \in 1..Len(col0) |->
        <<col0[i],
          IF col0[i] = Str(sName) THEN Str(sCombatDeaths) ELSE Str(<<"0">>)>>]

sMav == <<"M", "a", "v">>
BlockKinds == {"PP", "FN", "NF", "absent"}

BlockRow(kind) ==
    CASE kind = "PP" -> <<<<Str(sMav), Str(<<"0">>), Num(0)>>>>
      [] kind = "FN" -> <<<<Str(sMav), Str(<<"2">>), Null>>>>
      [] kind = "NF" -> <<<<Str(sMav), Null, Num(1)>>>>
      [] OTHER -> <<>>

BlockSheet(i, kind) ==
    [title |-> <<"W">> \o NatToString(i), hidden |-> FALSE,
     cells |-> <<<<Str(<<"T">>), Null, Null>>,
                 <<Str(sName), Str(sCombatDeaths), Str(sBolters)>>>>
               \o BlockRow(kind)]

\* A "book" document has sheets B1, B2, ... of five columns: Name, Combat
\* Deaths, Bolters, the column of the config block and the column of its
\* values.  A sheet is [cfg, rows]: its blocks have one row each, a pilot's
\* name, deaths and bolters, and a blank row lies between two blocks.  The
\* config block, with its anchor in row 0, is absent ("none"), without a key
\* ("plain"), switches one category off ("noBolters", "noDeaths") or is in
\* the last column of a sheet of four columns ("last").
sConfigCell == <<"C", "o", "n", "f", "i", "g">>
sCountBoltersCell == <<"C", "o", "u", "n", "t", " ", "B", "o", "l", "t", "e", "r", "s">>
sCountDeathsCell == <<"C", "o", "u", "n", "t", " ", "D", "e", "a", "t", "h", "s">>

Cfgs == {"none", "plain", "noBolters", "noDeaths", "last"}

\* The cells of the config columns in row r of a sheet.
ConfigCells(r, cfg) ==
    CASE cfg = "none" -> <<Null, Null>>
      [] cfg = "last" ->
            IF r = 0 THEN <<Str(sConfigCell)>>
            ELSE IF r = 1 THEN <<Str(sCountBoltersCell)>>
            ELSE <<Null>>
      [] OTHER ->
            IF r = 0 THEN <<Str(sConfigCell), Null>>
            ELSE IF r = 1 /\ cfg # "plain"
            THEN <<Str(sCountBoltersCell), Bool(cfg # "noBolters")>>
            ELSE IF r = 2 /\ cfg # "plain"
            THEN <<Str(sCountDeathsCell), Bool(cfg # "noDeaths")>>
            ELSE <<Null, Null>>

\* The cells of the first three columns in row r of a sheet of the given
\* blocks: timeslot, header, member, blank, timeslot, ...
BlockCells(r, blocks) ==
    CASE r % 4 = 0 -> <<Str(<<"T">> \o NatToString((r \div 4) + 1)), Null, Null>>
      [] r % 4 = 1 -> <<Str(sName), Str(sCombatDeaths), Str(sBolters)>>
      [] r % 4 = 2 -> <<blocks[(r \div 4) + 1].name,
                        blocks[(r \div 4) + 1].deaths,
                        blocks[(r \div 4) + 1].bolters>>
      [] OTHER -> <<Null, Null, Null>>

BookSheet(i, s) ==
    [title |-> <<"B">> \o NatToString(i), hidden |-> FALSE,
     cells |-> [r \in 1..(4 * Len(s.rows) - 1) |->
                   BlockCells(r - 1, s.rows) \o ConfigCells(r - 1, s.cfg)]]

\* this.doc.sheetsByIndex
sheetsByIndex(d) ==
    IF d.family = "grid"
    THEN <<[title |-> <<"W", "1">>, hidden |-> FALSE, cells |-> GridOfNames(d.cells)]>>
    ELSE IF d.family = "book"
    THEN [i \in 1..Len(d.cells) |-> BookSheet(i, d.cells[i])]
    ELSE [i \in 1..Len(d.cells) |-> BlockSheet(i, d.cells[i])]

GridDocs ==
    {[family |-> "grid", cells |-> col0] :
        col0 \in UNION {[1..n -> NameCells] : n \in 1..MaxRows}}

\* The sequences of n block kinds that are PP but at the places odd.
KindsAt(n, odd) ==
    {[i \in 1..n |-> IF i \in odd THEN other[i] ELSE "PP"] :
        other \in [odd -> BlockKinds \ {"PP"}]}

StreakDocs ==
    {[family |-> "streak", cells |-> kinds] :
        kinds \in UNION {KindsAt(n, odd) :
                     n \in 1..MaxOps,
                     odd \in {o \in SUBSET (1..MaxOps) : Cardinality(o) <= MaxOdd}}
                  \cup UNION {[1..n -> BlockKinds] : n \in 1..MaxShort}}

\* The rows of the book documents.  Counted rows: the pilot Al with no or
\* two deaths and no or two bolters.  Named rows: a clean row of Al, of AL or
\* of " Al".
CountCells == {Str(<<"0">>), Str(<<"2">>)}
CountedRows ==
    {[name |-> Str(sAl), deaths |-> d, bolters |-> b] :
        d \in CountCells, b \in CountCells}
CleanRow(name) == [name |-> Str(name), deaths |-> Str(<<"0">>), bolters |-> Str(<<"0">>)]
BookNames == {sAl, <<"A", "L">>, <<" ", "A", "l">>}
NamedRows == {CleanRow(name) : name \in BookNames}

\* A sheet of one clean block of Al and no config block.
WarmUp == [cfg |-> "none", rows |-> <<CleanRow(sAl)>>]

\* One sheet with any config block and at most MaxBlocks counted blocks, alone
\* or after the warm-up sheet.
ConfigBooks ==
    {warm \o <<[cfg |-> cfg, rows |-> rows]>> :
        warm \in {<<>>, <<WarmUp>>},
        cfg \in Cfgs,
        rows \in UNION {[1..n -> CountedRows] : n \in 1..MaxBlocks}}

\* At most MaxSheets sheets of two named blocks and no config block.
NameBooks ==
    UNION {[1..n -> {[cfg |-> "none", rows |-> rows] : rows \in [1..2 -> NamedRows]}] :
              n \in 1..MaxSheets}

\* At most MaxSheets sheets of as many clean blocks of Al as a streak takes,
\* each with any config block.
StreakBooks ==
    UNION {[1..n -> {[cfg |-> cfg, rows |-> [k \in 1..Threshold |-> CleanRow(sAl)]] :
                        cfg \in Cfgs}] :
              n \in 1..MaxSheets}

BookDocs ==
    {[family |-> "book", cells |-> sheets] :
        sheets \in ConfigBooks \cup NameBooks \cup StreakBooks}

-----
(* GoogleSheetParser: the fields of one parser object and the position of  *)
(* its run().                                                              *)

VARIABLES
    doc,                 \* this.doc: the document loaded by init()
    pc,                  \* "idle", "load", "loaded", "members", "member", "done", "failed"
    runs,                \* the number of calls of run() so far
    ops,                 \* run: const ops (after the run: what ops.json holds)
    memberSet,           \* run: const members, a Set in insertion order
    memberIdx,           \* run: the member members.forEach is at
    opIdx,               \* parseMember: the op ops.forEach is at
    opsWithoutDeath,     \* parseMember: let opsWithoutDeath
    opsWithoutBolter,    \* parseMember: let opsWithoutBolter
    members,             \* this.members, by property key
    achievementHistory,  \* this.achievementHistory, a line per element
    opAchievementLog,    \* this.opAchievementLog, in key insertion order
    result,              \* what the last run() returned
    error,               \* what the last run() threw, "none" if nothing
    firstRun,            \* members and achievementHistory as the first run left them
    evValue,             \* parseEvent alone: value
    evIgnore,            \* parseEvent alone: ignoreBecauseOfConfig
    evResult,            \* parseEvent alone: the Change returned, "none" before
    hdrMap               \* loadColumnMap alone: [done, map], the ColumnMap returned

vars == <<doc, pc, runs, ops, memberSet, memberIdx, opIdx,
          opsWithoutDeath, opsWithoutBolter, members, achievementHistory,
          opAchievementLog, result, error, firstRun, evValue, evIgnore, evResult,
          hdrMap>>

runVars == <<doc, pc, runs, ops, memberSet, memberIdx, opIdx,
             opsWithoutDeath, opsWithoutBolter, members, achievementHistory,
             opAchievementLog, result, error, firstRun>>

evVars == <<evValue, evIgnore, evResult>>

mapVars == <<hdrMap>>

Pending == [t |-> "pending"]

\* No call of loadColumnMap has returned.
NoMap == [done |-> FALSE, map |-> <<>>]

\* const nonOpSheets
nonOpSheets ==
    {<<"O", "p", "e", "r", "a", "t", "i", "o", "n", "s", " ",
       "R", "e", "c", "o", "r", "d">>,
     <<"A", "w", "a", "r", "d", "s", " ", "R", "e", "c", "o", "r", "d">>}

\* Set.add(value), the set being kept in insertion order
SetAdd(set, value) ==
    IF \E i \in 1..Len(set) : set[i] = value THEN set ELSE Append(set, value)

\* The set, in insertion order, after every element of seq is added to it.
RECURSIVE AddAll(_, _)
AddAll(set, seq) ==
    IF seq = <<>> THEN set ELSE AddAll(SetAdd(set, Head(seq)), Tail(seq))

\* The uniqueName of every member of every op, in order.
RECURSIVE AllNames(_)
AllNames(opList) ==
    IF opList = <<>> THEN <<>>
    ELSE [i \in 1..Len(Head(opList).members) |-> Get(Head(opList).members[i], "uniqueName")]
         \o AllNames(Tail(opList))

\* this.members[key] = stats
SetMember(all, key, stats) ==
    [k \in DOMAIN all \cup {key} |-> IF k = key THEN stats ELSE all[k]]

\* this.opAchievementLog[name] = log: an existing key keeps its place.
SetLog(logs, name, log) ==
    IF \E i \in 1..Len(logs) : logs[i].name = name
    THEN [i \in 1..Len(logs) |->
            IF logs[i].name = name THEN [name |-> name, log |-> log] ELSE logs[i]]
    ELSE Append(logs, [name |-> name, log |-> log])

\* this.opAchievementLog[name], a key that is there
GetLog(logs, name) == logs[CHOOSE i \in 1..Len(logs) : logs[i].name = name].log

LogLine(tag, who, times) == [tag |-> tag, who |-> who, times |-> times]

\* The forEach of run that starts every op's log with its title line.
RECURSIVE ResetLogs(_, _)
ResetLogs(logs, opList) ==
    IF opList = <<>> THEN logs
    ELSE ResetLogs(SetLog(logs, Head(opList).name,
                          <<LogLine("------", Str(Head(opList).name), 0)>>),
                   Tail(opList))

\* A rolling counter that anything but a Passed sets to 0.
UpdateCounterOrReset(counter, change) ==
    IF change = Passed THEN counter + 1 ELSE 0

\* A rolling counter after the classification of one block.
UpdateCounter(counter, change) ==
    IF change = Failed THEN 0
    ELSE IF change = Passed THEN counter + 1
    ELSE counter

\* A threshold test that leaves the counter as it is.
AfterThresholdKeeps(counter) == counter

\* A threshold test that resets the counter above the threshold only.
AfterThresholdAbove(counter) == IF counter > Threshold THEN 0 ELSE counter

\* A rolling counter after the threshold test.
AfterThreshold(counter) == IF counter >= Threshold THEN 0 ELSE counter

\* this.members[memberName] after the two threshold tests of one block: a
\* no-death streak increments fiveOpsWithoutBolter, a no-bolter streak
\* fiveOpsWithoutDeath.
AwardStats(stats, deathAward, bolterAward) ==
    [stats EXCEPT
        !.fiveOpsWithoutBolter = IF deathAward THEN @ + 1 ELSE @,
        !.fiveOpsWithoutDeath = IF bolterAward THEN @ + 1 ELSE @]

\* The count the [FIVE OPS WITHOUT DEATH] log line reports.
DeathLineCount(stats, deathAward, bolterAward) ==
    AwardStats(stats, deathAward, FALSE).fiveOpsWithoutBolter

\* The count the [FIVE OPS WITHOUT BOLTER] log line reports.
BolterLineCount(stats, deathAward, bolterAward) ==
    AwardStats(stats, deathAward, bolterAward).fiveOpsWithoutDeath

\* op.members.filter(m => m.uniqueName != null); delete op.sheet
RECURSIVE FilterMembers(_)
FilterMembers(list) ==
    IF list = <<>> THEN <<>>
    ELSE IF ~LooseEq(Get(Head(list), "uniqueName"), Null)
    THEN <<Head(list)>> \o FilterMembers(Tail(list))
    ELSE FilterMembers(Tail(list))

FilterOp(op) == [op EXCEPT !.members = FilterMembers(op.members), !.sheet = 0]

-----------------------------------------------------------------------------
(* run(), step by step.                                                    *)

\* A caller calls run(): lines 224-226.
Start ==
    /\ pc \in {"idle", "done", "failed"}
    /\ runs < MaxRuns
    /\ runs' = runs + 1
    /\ pc' = "load"
    /\ ops' = <<>>
    /\ memberSet' = <<>>
    /\ memberIdx' = 0
    /\ opIdx' = 0
    /\ opsWithoutDeath' = 0
    /\ opsWithoutBolter' = 0
    /\ result' = Pending
    /\ error' = "none"
    /\ UNCHANGED <<doc, members, achievementHistory, opAchievementLog, firstRun>>
    /\ UNCHANGED evVars
    /\ UNCHANGED mapVars

\* Op.fromSheet of a sheet that is neither hidden nor a non-op sheet; no op of
\* the others.
SheetOps(sheet, index) ==
    IF sheet.hidden \/ sheet.title \in nonOpSheets
    THEN [error |-> "none", ops |-> <<>>]
    ELSE fromSheet(sheet, index)

\* A push that puts the ops of a sheet before the ops of the sheets before it.
PushOpsFront(loaded, newOps) ==
    IF newOps.error # "none" THEN newOps
    ELSE [error |-> "none", ops |-> newOps.ops \o loaded.ops]

\* ops.push(...newOps): an exception of Op.fromSheet leaves run().
PushOps(loaded, newOps) ==
    IF newOps.error # "none" THEN newOps
    ELSE [error |-> "none", ops |-> loaded.ops \o newOps.ops]

\* The loop over this.doc.sheetsByIndex from sheet index on, loaded being
\* [error, ops] so far.
RECURSIVE LoadSheets(_, _, _)
LoadSheets(sheets, index, loaded) ==
    IF index > Len(sheets) \/ loaded.error # "none" THEN loaded
    ELSE LoadSheets(sheets, index + 1,
                    PushOps(loaded, SheetOps(sheets[index], index)))

\* The end of the loop: an exception of Op.fromSheet rejects the promise of
\* run().
Loaded(loaded) ==
    IF loaded.error # "none"
    THEN /\ pc' = "failed"
         /\ error' = loaded.error
         /\ UNCHANGED ops
    ELSE /\ pc' = "loaded"
         /\ ops' = loaded.ops
         /\ UNCHANGED error

\* The loop over the sheets: lines 227-233.
LoadSheet ==
    /\ pc = "load"
    /\ Loaded(LoadSheets(sheetsByIndex(doc), 1, [error |-> "none", ops |-> <<>>]))
    /\ UNCHANGED <<doc, runs, memberSet, memberIdx, opIdx, opsWithoutDeath,
                   opsWithoutBolter, members, achievementHistory,
                   opAchievementLog, result, firstRun>>
    /\ UNCHANGED evVars
    /\ UNCHANGED mapVars

\* After the last sheet: lines 235-239.
CollectMembers ==
    /\ pc = "loaded"
    /\ memberSet' = AddAll(<<>>, AllNames(ops))
    /\ opAchievementLog' = ResetLogs(opAchievementLog, ops)
    /\ memberIdx' = 1
    /\ pc' = "members"
    /\ UNCHANGED <<doc, runs, ops, opIdx, opsWithoutDeath,
                   opsWithoutBolter, members, achievementHistory, result, error,
                   firstRun>>
    /\ UNCHANGED evVars
    /\ UNCHANGED mapVars

\* parseMember(memberName, ops) up to its loop: lines 267-277.
ParseMemberStart ==
    /\ pc = "members"
    /\ memberIdx <= Len(memberSet)
    /\ members' = SetMember(members, ToString(memberSet[memberIdx]),
                            [fiveOpsWithoutBolter |-> 0, fiveOpsWithoutDeath |-> 0,
                             history |-> <<>>])
    /\ opsWithoutDeath' = 0
    /\ opsWithoutBolter' = 0
    /\ opIdx' = 1
    /\ pc' = "member"
    /\ UNCHANGED <<doc, runs, ops, memberSet, memberIdx,
                   achievementHistory, opAchievementLog, result, error, firstRun>>
    /\ UNCHANGED evVars
    /\ UNCHANGED mapVars

\* The narrative line log(...) appends: line 331.
HistoryLine(op, member, deathResult, bolterResult, deaths, bolters) ==
    [op |-> op.name,
     death |-> deathResult, deaths |-> Get(member, "combatDeaths"),
     bolter |-> bolterResult, bolters |-> Get(member, "bolters"),
     wire |-> Get(member, "wire"), remarks |-> Get(member, "remarks"),
     achievements |-> (IF deaths >= Threshold THEN <<"DEATH">> ELSE <<>>)
                      \o (IF bolters >= Threshold THEN <<"BOLTER">> ELSE <<>>)]

\* The lines this block adds to this.achievementHistory: lines 310, 321.
HistoryLines(op, member, deaths, bolters) ==
    (IF deaths >= Threshold
     THEN <<[op |-> op.name, who |-> Get(member, "displayName"), kind |-> "died"]>>
     ELSE <<>>)
    \o (IF bolters >= Threshold
        THEN <<[op |-> op.name, who |-> Get(member, "displayName"), kind |-> "boltered"]>>
        ELSE <<>>)

\* The lines this block adds to this.opAchievementLog[op.name]: lines 315-317,
\* 326-328.
AwardLines(member, stats, deaths, bolters) ==
    (IF deaths >= Threshold
     THEN <<LogLine("DEATH", Get(member, "displayName"),
                    DeathLineCount(stats, deaths >= Threshold, bolters >= Threshold))>>
     ELSE <<>>)
    \o (IF bolters >= Threshold
        THEN <<LogLine("BOLTER", Get(member, "displayName"),
                       BolterLineCount(stats, deaths >= Threshold, bolters >= Threshold))>>
        ELSE <<>>)

\* Lines 308-331, deaths and bolters being the two counters after the
\* classification of the block.
Award(op, key, member, deathResult, bolterResult, deaths, bolters) ==
    /\ opsWithoutDeath' = AfterThreshold(deaths)
    /\ opsWithoutBolter' = AfterThreshold(bolters)
    /\ achievementHistory' =
           achievementHistory \o HistoryLines(op, member, deaths, bolters)
    /\ opAchievementLog' =
           SetLog(opAchievementLog, op.name,
                  GetLog(opAchievementLog, op.name)
                  \o AwardLines(member, members[key], deaths, bolters))
    /\ members' = [members EXCEPT ![key] =
           [AwardStats(@, deaths >= Threshold, bolters >= Threshold) EXCEPT
               !.history = Append(@, HistoryLine(op, member, deathResult,
                                                 bolterResult, deaths, bolters))]]

\* A tally in which a death breaks the streak without bolter too.
TallyCrossed(op, key, member, deathResult, bolterResult) ==
    Award(op, key, member, deathResult, bolterResult,
          UpdateCounter(opsWithoutDeath, deathResult),
          UpdateCounter(opsWithoutBolter,
                        IF deathResult = Failed THEN Failed ELSE bolterResult))

\* Lines 286-306, the two classifications being made.
Tally(op, key, member, deathResult, bolterResult) ==
    Award(op, key, member, deathResult, bolterResult,
          UpdateCounter(opsWithoutDeath, deathResult),
          UpdateCounter(opsWithoutBolter, bolterResult))

\* Lines 280-282: a participant who is not in the op is skipped.
Replay(op, key, at) ==
    IF at = 0
    THEN UNCHANGED <<opsWithoutDeath, opsWithoutBolter, members,
                     achievementHistory, opAchievementLog>>
    ELSE Tally(op, key, op.members[at],
               parseEvent(Get(op.members[at], "combatDeaths"), ~Truthy(op.config.countDeaths)),
               parseEvent(Get(op.members[at], "bolters"), ~Truthy(op.config.countBolters)))

\* The body of ops.forEach in parseMember for one op: lines 279-332.
ParseMemberOp ==
    /\ pc = "member"
    /\ opIdx <= Len(ops)
    /\ Replay(ops[opIdx], ToString(memberSet[memberIdx]),
              getMember(ops[opIdx], memberSet[memberIdx]))
    /\ IF opIdx = Len(ops)
       THEN /\ pc' = "members"
            /\ memberIdx' = memberIdx + 1
            /\ UNCHANGED opIdx
       ELSE /\ opIdx' = opIdx + 1
            /\ UNCHANGED <<pc, memberIdx>>
    /\ UNCHANGED <<doc, runs, ops, memberSet, result, error, firstRun>>
    /\ UNCHANGED evVars
    /\ UNCHANGED mapVars

\* After the last member: lines 245-250.  The members without a name are
\* dropped, ops.json is written and run() returns, with no value.
Finish ==
    /\ pc = "members"
    /\ memberIdx > Len(memberSet)
    /\ ops' = [i \in 1..Len(ops) |-> FilterOp(ops[i])]
    /\ result' = Undefined
    /\ pc' = "done"
    /\ firstRun' = IF runs = 1
                   THEN [members |-> members, achievementHistory |-> achievementHistory]
                   ELSE firstRun
    /\ UNCHANGED <<doc, runs, memberSet, memberIdx, opIdx,
                   opsWithoutDeath, opsWithoutBolter, members, achievementHistory,
                   opAchievementLog, error>>
    /\ UNCHANGED evVars
    /\ UNCHANGED mapVars

Next ==
    \/ Start
    \/ LoadSheet
    \/ CollectMembers
    \/ ParseMemberStart
    \/ ParseMemberOp
    \/ Finish

\* A parser object right after its construction and init(), on document d.
InitParser(d) ==
    /\ doc = d
    /\ pc = "idle"
    /\ runs = 0
    /\ ops = <<>>
    /\ memberSet = <<>>
    /\ memberIdx = 0
    /\ opIdx = 0
    /\ opsWithoutDeath = 0
    /\ opsWithoutBolter = 0
    /\ members = <<>>
    /\ achievementHistory = <<>>
    /\ opAchievementLog = <<>>
    /\ result = Pending
    /\ error = "none"
    /\ firstRun = [members |-> <<>>, achievementHistory |-> <<>>]
    /\ evValue = Null
    /\ evIgnore = FALSE
    /\ evResult = "none"
    /\ hdrMap = NoMap

-----------------------------------------------------------------------------------------------------------------------------------------------------
(* Spec: the grid documents.  SpecStreak: the streak documents.  SpecBook:  *)
(* the book documents.                                                     *)

Init == \E d \in GridDocs : InitParser(d)

Spec == Init /\ [][Next]_vars

InitStreak == \E d \in StreakDocs : InitParser(d)

SpecStreak == InitStreak /\ [][Next]_vars

InitBook == \E d \in BookDocs : InitParser(d)

SpecBook == InitBook /\ [][Next]_vars

-----
(* SpecEvent: parseEvent alone, on every value of EventValues.             *)

EventChars == {"0", "3", "-", "+", " ", "a"}
EventStrings == UNION {[1..n -> EventChars] : n \in 0..MaxStrLen}
EventValues ==
    {Null, Undefined, Bool(TRUE), Bool(FALSE)}
    \cup {Num(n) : n \in -2..3}
    \cup {Str(s) : s \in EventStrings}

InitEvent ==
    /\ evValue \in EventValues
    /\ evIgnore \in BOOLEAN
    /\ evResult = "none"
    /\ doc = [family |-> "streak", cells |-> <<>>]
    /\ pc = "event"
    /\ runs = 0
    /\ ops = <<>>
    /\ memberSet = <<>>
    /\ memberIdx = 0
    /\ opIdx = 0
    /\ opsWithoutDeath = 0
    /\ opsWithoutBolter = 0
    /\ members = <<>>
    /\ achievementHistory = <<>>
    /\ opAchievementLog = <<>>
    /\ result = Pending
    /\ error = "none"
    /\ firstRun = [members |-> <<>>, achievementHistory |-> <<>>]
    /\ hdrMap = NoMap

\* A call parseEvent(evValue, evIgnore).
Classify ==
    /\ pc = "event"
    /\ evResult = "none"
    /\ evResult' = parseEvent(evValue, evIgnore)
    /\ UNCHANGED <<evValue, evIgnore>>
    /\ UNCHANGED runVars
    /\ UNCHANGED mapVars

NextEvent == Classify

SpecEvent == InitEvent /\ [][NextEvent]_vars

-----------------------------------------------------------------------------
(* SpecColumns: loadColumnMap alone, on every header row of at most        *)
(* MaxCols cells of HeaderCells.                                           *)

HeaderCells ==
    {Null, Num(0), Str(sName), Str(<<" ">> \o sName \o <<" ">>),
     Str(<<"n", "a", "m", "e">>), Str(sBolters), Str(sBolters \o <<" ">>),
     Str(sLsoGrade)}

HeaderRowsOf == UNION {[1..n -> HeaderCells] : n \in 1..MaxCols}

\* The sheet whose one row is the header row.
HeaderSheet(row) == [title |-> <<"H">>, hidden |-> FALSE, cells |-> <<row>>]

InitColumns ==
    /\ doc \in {[family |-> "header", cells |-> row] : row \in HeaderRowsOf}
    /\ hdrMap = NoMap
    /\ pc = "columns"
    /\ evValue = Null
    /\ evIgnore = FALSE
    /\ evResult = "none"
    /\ runs = 0
    /\ ops = <<>>
    /\ memberSet = <<>>
    /\ memberIdx = 0
    /\ opIdx = 0
    /\ opsWithoutDeath = 0
    /\ opsWithoutBolter = 0
    /\ members = <<>>
    /\ achievementHistory = <<>>
    /\ opAchievementLog = <<>>
    /\ result = Pending
    /\ error = "none"
    /\ firstRun = [members |-> <<>>, achievementHistory |-> <<>>]

\* A call loadColumnMap(0) on the sheet of the header row.
MapColumns ==
    /\ pc = "columns"
    /\ ~hdrMap.done
    /\ hdrMap' = [done |-> TRUE, map |-> loadColumnMap(HeaderSheet(doc.cells), 0)]
    /\ UNCHANGED runVars
    /\ UNCHANGED evVars

NextColumns == MapColumns

SpecColumns == InitColumns /\ [][NextColumns]_vars

-----------------------------------------------------------------------------
(* Properties of loadColumnMap (SpecColumns).                              *)

\* The value is a text that is the given text between white space.
TrimsTo(value, text) ==
    /\ value.t = "string"
    /\ \E lead \in 0..Len(value.s) :
          /\ lead + Len(text) <= Len(value.s)
          /\ \A i \in 1..Len(text) : value.s[lead + i] = text[i]
          /\ \A i \in 1..Len(value.s) :
                (i <= lead \/ i > lead + Len(text)) => value.s[i] \in WhiteSpace

\* The columns of the header row whose trimmed text is the header text of
\* the field.
ColumnsOf(row, field) ==
    {column \in 0..(Len(row) - 1) : TrimsTo(row[column + 1], columNameMap[field])}

\* C13: loadColumnMap maps a field if and only if a column of the header row
\* has, trimmed, exactly the header text of the field, and maps it to the
\* smallest such column; a field without such a column is left out of the
\* map, and the map has no other key.
C13_ColumnMapOfHeaderRow ==
    hdrMap.done =>
        /\ DOMAIN hdrMap.map \subseteq DOMAIN columNameMap
        /\ \A field \in DOMAIN columNameMap :
              /\ field \in DOMAIN hdrMap.map <=> ColumnsOf(doc.cells, field) # {}
              /\ field \in DOMAIN hdrMap.map =>
                    /\ hdrMap.map[field] \in ColumnsOf(doc.cells, field)
                    /\ \A column \in ColumnsOf(doc.cells, field) :
                          hdrMap.map[field] <= column

\* A header row " Name ", "Bolters ", "Name": the name is in column 0, the
\* bolters in column 1, and no LSO grade is mapped.
C13_Witness ==
    /\ hdrMap.done
    /\ doc.cells = <<Str(<<" ">> \o sName \o <<" ">>), Str(sBolters \o <<" ">>), Str(sName)>>
    /\ DOMAIN hdrMap.map = {"uniqueName", "bolters"}
    /\ hdrMap.map["uniqueName"] = 0
    /\ hdrMap.map["bolters"] = 1

-----------------------------------------------------------------------------
(* Properties of parseEvent (SpecEvent).                                   *)

\* C2: with ignoreBecauseOfConfig true, parseEvent returns NoChange whatever
\* the raw value is, "3" included.
C2_DisabledIsNoChange ==
    (evResult # "none" /\ evIgnore) => evResult = NoChange

C2_Witness ==
    /\ evIgnore
    /\ evValue = Str(<<"3">>)
    /\ evResult = NoChange

\* The place of the first character of s that is not white space, 0 if none.
FirstInk(s) ==
    IF \A i \in 1..Len(s) : s[i] \in WhiteSpace THEN 0
    ELSE CHOOSE i \in 1..Len(s) :
            /\ s[i] \notin WhiteSpace
            /\ \A j \in 1..(i - 1) : s[j] \in WhiteSpace

\* The place where the digits of s must start: after the white space and
\* one sign.
FirstDigit(s) ==
    IF s[FirstInk(s)] \in {"-", "+"} THEN FirstInk(s) + 1 ELSE FirstInk(s)

\* s holds an integer: white space, at most one sign, then a digit.
HoldsInteger(s) ==
    /\ FirstInk(s) # 0
    /\ FirstDigit(s) <= Len(s)
    /\ s[FirstDigit(s)] \in {"0", "1", "2", "3", "4", "5", "6", "7", "8", "9"}

\* The integer s holds is > 0: no minus sign, and a digit other than 0 in the
\* run of digits.
HoldsPositive(s) ==
    /\ s[FirstInk(s)] # "-"
    /\ \E k \in FirstDigit(s)..Len(s) :
          /\ s[k] \in {"1", "2", "3", "4", "5", "6", "7", "8", "9"}
          /\ \A j \in FirstDigit(s)..k :
                s[j] \in {"0", "1", "2", "3", "4", "5", "6", "7", "8", "9"}

\* The classification of an enabled category, read off the raw value.
ExpectedChange(value) ==
    CASE value.t = "string" ->
            IF ~HoldsInteger(value.s) THEN NoChange
            ELSE IF HoldsPositive(value.s) THEN Failed
            ELSE Passed
      [] value.t = "number" -> IF value.n > 0 THEN Failed ELSE Passed
      [] OTHER -> NoChange

\* C3: with the category enabled, parseEvent returns NoChange for a missing
\* or empty value and for one that holds no integer, Failed for an integer
\* > 0 and Passed for an integer <= 0, 0 and the negative ones included.
C3_EnabledClassification ==
    (evResult # "none" /\ ~evIgnore) => evResult = ExpectedChange(evValue)

C3_Witness ==
    /\ ~evIgnore
    /\ evValue = Str(<<"-", "3">>)
    /\ evResult = Passed

-----------------------------------------------------------------------------
(* Properties of the replay of one participant (SpecStreak).               *)

\* The classification a narrative line records for a category.
Class(line, cat) == IF cat = "death" THEN line.death ELSE line.bolter

\* The narrative line records an achievement of the category.
Awarded(line, cat) ==
    \E i \in 1..Len(line.achievements) :
        line.achievements[i] = (IF cat = "death" THEN "DEATH" ELSE "BOLTER")

\* The counter of the category is 0 when line j of history h is replayed: the
\* replay starts there, or the line before is a Failed one or an awarded one.
StartsAtZero(h, j, cat) ==
    \/ j = 1
    \/ Class(h[j - 1], cat) = Failed
    \/ Awarded(h[j - 1], cat)

\* The last line of h is the fifth Passed of a run that starts from a counter
\* of 0 and has no Failed in it; the NoChange lines do not count.
FifthPass(h, cat) ==
    \E j \in 1..Len(h) :
        /\ StartsAtZero(h, j, cat)
        /\ \A i \in j..Len(h) : Class(h[i], cat) # Failed
        /\ Cardinality({i \in j..Len(h) : Class(h[i], cat) = Passed}) = Threshold
        /\ Class(h[Len(h)], cat) = Passed

\* The events of a category among the lines the step adds to
\* this.achievementHistory.
EventsAdded(cat) ==
    {i \in (Len(achievementHistory) + 1)..Len(achievementHistory') :
        achievementHistory'[i].kind = (IF cat = "death" THEN "died" ELSE "boltered")}

\* One op of the replay of a participant, for one category and its counter
\* before and after the op.
StreakStep(cat, counter, counterAfter, key, at) ==
    IF at = 0
    THEN /\ counterAfter = counter
         /\ EventsAdded(cat) = {}
         /\ members'[key].history = members[key].history
    ELSE /\ Len(members'[key].history) = Len(members[key].history) + 1
         /\ FifthPass(members'[key].history, cat) =>
                /\ Cardinality(EventsAdded(cat)) = 1
                /\ \A i \in EventsAdded(cat) :
                      /\ achievementHistory'[i].op = ops[opIdx].name
                      /\ achievementHistory'[i].who = Get(ops[opIdx].members[at], "displayName")
                /\ counterAfter = 0
         /\ ~FifthPass(members'[key].history, cat) => EventsAdded(cat) = {}
         /\ (counter = Threshold - 1
              /\ Class(members'[key].history[Len(members'[key].history)], cat) = Failed) =>
                /\ counterAfter = 0
                /\ EventsAdded(cat) = {}

StreakSteps(key, at) ==
    /\ StreakStep("death", opsWithoutDeath, opsWithoutDeath', key, at)
    /\ StreakStep("bolter", opsWithoutBolter, opsWithoutBolter', key, at)

\* C1: in the replay of a participant, for the deaths and for the bolters:
\* the fifth Passed of a run from a counter of 0 with no Failed in it, with
\* NoChange ops and ops the participant is absent from among them, emits
\* exactly one achievement event of the category, for the op of that fifth
\* Passed, and leaves the counter at 0; no other op emits one; a Failed at a
\* counter of 4 sets the counter to 0 and emits none.
C1_StreakThreshold ==
    [][pc = "member" =>
          StreakSteps(ToString(memberSet[memberIdx]),
                      getMember(ops[opIdx], memberSet[memberIdx]))]_vars

\* The property key of the pilot Mav.
kMav == <<"m", "a", "v">>

\* Mav after ten ops, the fifth of them with two deaths and no trap logged:
\* four ops without a death, then the deaths, then five ops without one and
\* the award at the tenth; the no-bolter award at the sixth op.
C1_Witness ==
    /\ pc = "done"
    /\ runs = 1
    /\ kMav \in DOMAIN members
    /\ Len(members[kMav].history) = 10
    /\ members[kMav].history[5].death = Failed
    /\ members[kMav].history[5].bolter = NoChange
    /\ Awarded(members[kMav].history[6], "bolter")
    /\ Awarded(members[kMav].history[10], "death")
    /\ ~Awarded(members[kMav].history[5], "death")
    /\ Len(achievementHistory) = 2
    /\ opsWithoutDeath = 0

-----------------------------------------------------------------------------
(* Properties of whole runs (SpecStreak).                                  *)

\* C4: a second run() of the parser on the unmodified document ends with
\* the achievement history and the stats of every participant that the
\* first run ended with.
C4_RerunIdentical ==
    (pc = "done" /\ runs >= 2) =>
        /\ achievementHistory = firstRun.achievementHistory
        /\ members = firstRun.members

\* The number of narrative lines of h that record an achievement of cat.
AwardCount(h, cat) == Cardinality({i \in 1..Len(h) : Awarded(h[i], cat)})

\* The lines of a tag in the logs of the ops from the op at place from on, in
\* the order of the ops.
RECURSIVE TaggedLines(_, _, _)
TaggedLines(logs, from, tag) ==
    IF from > Len(logs) THEN <<>>
    ELSE SelectSeq(logs[from].log, LAMBDA line : line.tag = tag)
         \o TaggedLines(logs, from + 1, tag)

\* The lines of a tag count the awards of one pilot: 1, 2, ...
CountsUp(lines) == \A j \in 1..Len(lines) : lines[j].times = j

\* C5: after a full replay, fiveOpsWithoutDeath of a participant is the
\* number of no-death achievements emitted for them and fiveOpsWithoutBolter
\* the number of no-bolter achievements, and the line an achievement adds to
\* the log of its op reports the number of awards of its own category so
\* far (a document of one pilot: its lines count 1, 2, ...).
C5_AwardCountOfCategory ==
    pc = "done" =>
        /\ \A key \in DOMAIN members :
              /\ members[key].fiveOpsWithoutDeath =
                     AwardCount(members[key].history, "death")
              /\ members[key].fiveOpsWithoutBolter =
                     AwardCount(members[key].history, "bolter")
        /\ CountsUp(TaggedLines(opAchievementLog, 1, "DEATH"))
        /\ CountsUp(TaggedLines(opAchievementLog, 1, "BOLTER"))

\* this.opAchievementLog, the logs of the ops from the op at place from on
\* put together.
RECURSIVE FullLog(_, _)
FullLog(logs, from) ==
    IF from > Len(logs) THEN <<>>
    ELSE logs[from].log \o FullLog(logs, from + 1)

\* C6: a run() that ends without an exception returns the result
\* {members, achievementHistory, opAchievementLog}, the last being the logs
\* of the ops put together.
C6_ReturnsResult ==
    pc = "done" =>
        /\ DOMAIN result = {"members", "achievementHistory", "opAchievementLog"}
        /\ result.members = members
        /\ result.achievementHistory = achievementHistory
        /\ result.opAchievementLog = FullLog(opAchievementLog, 1)

-----------------------------------------------------------------------------
(* Properties of the extraction of the blocks (Spec).                      *)

\* The ops are loaded and their members are not filtered yet: the member at
\* place i of an op is the row startRow + i of its sheet.
Unfiltered == pc \in {"loaded", "members", "member"}

\* The sheet an op was loaded from.
SheetOf(op) == sheetsByIndex(doc)[op.sheet]

\* The header rows of a sheet.
HeaderRows(sheet) == {row \in 0..(rowCount(sheet) - 1) : IsHeader(sheet, row)}

\* The least row of a set of rows of a sheet, rowCount if the set is empty.
FirstRow(sheet, rows) ==
    IF rows = {} THEN rowCount(sheet)
    ELSE CHOOSE k \in rows : \A j \in rows : k <= j

\* The rows an op took its members from.
MemberRows(op) == {op.startRow + i : i \in 1..Len(op.members)}

\* An identity key that is empty.
EmptyKey(value) == value \in {Null, Undefined, Str(<<>>)}

\* C7: after the filter at the end of run(), no member of any op has an
\* empty uniqueName, the name cell having been blank, the empty text or in
\* no mapped column.
C7_NoEmptyKeyAfterFilter ==
    pc = "done" =>
        \A o \in 1..Len(ops) : \A i \in 1..Len(ops[o].members) :
            ~EmptyKey(Get(ops[o].members[i], "uniqueName"))

\* C8: in a sheet of two headers or more, every row an op takes a member
\* from is below the header of the op and above the next header: it is no
\* header row and no other op takes a member from it.
C8_RowsBetweenHeaders ==
    Unfiltered =>
        \A o \in 1..Len(ops) :
            Cardinality(HeaderRows(SheetOf(ops[o]))) >= 2 =>
                \A row \in MemberRows(ops[o]) :
                    /\ ~IsHeader(SheetOf(ops[o]), row)
                    /\ row < FirstRow(SheetOf(ops[o]),
                                      {k \in HeaderRows(SheetOf(ops[o])) : k > ops[o].startRow})
                    /\ \A q \in 1..Len(ops) :
                          (q # o /\ ops[q].sheet = ops[o].sheet) =>
                              row \notin MemberRows(ops[q])

\* The row Op.load stops at for the header at row r: the first row k > r
\* such that row k + 2 exists and is a header, rowCount if there is none.
StopRow(sheet, r) ==
    FirstRow(sheet, {k \in (r + 1)..(rowCount(sheet) - 1) :
                        k + 2 < rowCount(sheet) /\ IsHeader(sheet, k + 2)})

\* C9: the members of the op of the header at row r are the rows r + 1,
\* r + 2, ... in order up to the row before the first row k > r such that
\* row k + 2 exists and is a header, up to the last row of the grid if
\* there is no such k; each of them is pushed, the ones with an empty name
\* cell too.  Stated of the ops as the loop over the sheets leaves them.
C9_LoadStopsTwoRowsAhead ==
    pc = "loaded" =>
        \A o \in 1..Len(ops) :
            /\ Len(ops[o].members) =
                   StopRow(SheetOf(ops[o]), ops[o].startRow) - ops[o].startRow - 1
            /\ \A i \in 1..Len(ops[o].members) :
                  ops[o].members[i] =
                      parseOpMemberRow(SheetOf(ops[o]), ops[o].startRow + i,
                                       loadColumnMap(SheetOf(ops[o]),
                                                     ops[o].startRow)).member

\* A header at row 1, the blank row 2 pushed as its one member, and the
\* loop left at row 3 for the header at row 5.
C9_Witness ==
    /\ pc = "loaded"
    /\ Len(ops) = 2
    /\ ops[1].startRow = 1
    /\ Len(ops[1].members) = 1
    /\ Get(ops[1].members[1], "uniqueName") = Null
    /\ ops[2].startRow = 5
    /\ rowCount(SheetOf(ops[1])) = 6

\* The header rows of a sheet from row on, top to bottom.
RECURSIVE HeadersFrom(_, _)
HeadersFrom(sheet, row) ==
    IF row >= rowCount(sheet) THEN <<>>
    ELSE (IF IsHeader(sheet, row) THEN <<row>> ELSE <<>>)
         \o HeadersFrom(sheet, row + 1)

\* C10: Op.fromSheet returns one op for each row of the sheet with "Name"
\* in column 0, top to bottom, and no op for a sheet without such a row
\* (a document of one sheet: the ops of the run are the ops of the sheet).
C10_OneOpForEachHeader ==
    pc \in {"failed", "loaded", "members", "member", "done"} =>
        [o \in 1..Len(ops) |-> ops[o].startRow]
            = HeadersFrom(sheetsByIndex(doc)[1], 0)

-----------------------------------------------------------------------------
(* Properties of the config block (SpecBook).                              *)

\* The text of a cell without regard to letter case, <<>> for a blank cell.
LowerText(sheet, row, column) ==
    IF getCell(sheet, row, column).t = "string"
    THEN toLowerCase(getCell(sheet, row, column).s)
    ELSE <<>>

\* The sheet has a config block with the given key, spelled in any letter
\* case, and the given value in the column right of it.
HasConfigKey(sheet, key, value) ==
    \E row \in 0..(rowCount(sheet) - 1), column \in 0..(columnCount(sheet) - 2) :
        /\ LowerText(sheet, row, column) = sConfig
        /\ \E below \in (row + 1)..(rowCount(sheet) - 1) :
              /\ LowerText(sheet, below, column) = key
              /\ getCell(sheet, below, column + 1) = value

\* The property key of the pilot Al.
kAl == <<"a", "l">>

\* The narrative line the step adds for the participant.
LastLine(key) == members'[key].history[Len(members'[key].history)]

\* C11: in the replay of a participant, an op of a sheet whose config block
\* has Count Bolters = false classifies the bolters as NoChange whatever the
\* raw count is, "2" included: it neither increments nor resets the bolter
\* counter and emits no bolter achievement.
C11_BoltersSwitchedOff ==
    [][(pc = "member"
        /\ HasConfigKey(SheetOf(ops[opIdx]), sCountBolters, Bool(FALSE))) =>
          /\ opsWithoutBolter' = opsWithoutBolter
          /\ EventsAdded("bolter") = {}
          /\ getMember(ops[opIdx], memberSet[memberIdx]) # 0 =>
                LastLine(ToString(memberSet[memberIdx])).bolter = NoChange]_vars

\* Al after a sheet that counts the bolters and a sheet that does not, in
\* which two bolters are logged: the counter is still the 1 of the first
\* sheet.
C11_Witness ==
    /\ pc = "done"
    /\ Len(doc.cells) = 2
    /\ doc.cells[2].cfg = "noBolters"
    /\ kAl \in DOMAIN members
    /\ Len(members[kAl].history) = 2
    /\ members[kAl].history[2].bolters = Str(<<"2">>)
    /\ members[kAl].history[2].bolter = NoChange
    /\ opsWithoutBolter = 1

\* The cells of a sheet whose text is "config" in any letter case.
Anchors(sheet) ==
    {rc \in (0..(rowCount(sheet) - 1)) \X (0..(columnCount(sheet) - 1)) :
        LowerText(sheet, rc[1], rc[2]) = sConfig}

\* The rows below an anchor that hold the key in the anchor's column.
KeyRows(sheet, anchor, key) ==
    {row \in (anchor[1] + 1)..(rowCount(sheet) - 1) :
        LowerText(sheet, row, anchor[2]) = key}

\* The flag a config block gives a key: the value right of the lowest cell
\* with the key, true when there is no such cell.
FlagAt(sheet, anchor, key) ==
    IF KeyRows(sheet, anchor, key) = {} THEN Bool(TRUE)
    ELSE getCell(sheet,
                 CHOOSE row \in KeyRows(sheet, anchor, key) :
                     \A other \in KeyRows(sheet, anchor, key) : other <= row,
                 anchor[2] + 1)

\* The config of a sheet: the defaults without an anchor, the flags of the
\* block of the first anchor, rows first, otherwise.
SheetConfig(sheet) ==
    IF Anchors(sheet) = {} THEN [countBolters |-> Bool(TRUE), countDeaths |-> Bool(TRUE)]
    ELSE [countBolters |-> FlagAt(sheet, FirstCell(Anchors(sheet)), sCountBolters),
          countDeaths |-> FlagAt(sheet, FirstCell(Anchors(sheet)), sCountDeaths)]

\* C12: every op of a sheet carries the one config of the sheet, which is
\* {countBolters: true, countDeaths: true} when no cell of the sheet is
\* "config".
C12_OneConfigForEachSheet ==
    pc = "loaded" =>
        \A o \in 1..Len(ops) :
            /\ ops[o].config = SheetConfig(SheetOf(ops[o]))
            /\ \A q \in 1..Len(ops) :
                  ops[q].sheet = ops[o].sheet => ops[q].config = ops[o].config

\* Two sheets of two ops: the first without config block, the second with
\* the bolters switched off.
C12_Witness ==
    /\ pc = "loaded"
    /\ Len(ops) = 3
    /\ ops[1].sheet = 1
    /\ ops[1].config = [countBolters |-> Bool(TRUE), countDeaths |-> Bool(TRUE)]
    /\ ops[2].sheet = 2
    /\ ops[3].sheet = 2
    /\ ops[2].config = [countBolters |-> Bool(FALSE), countDeaths |-> Bool(TRUE)]
    /\ ops[3].config = ops[2].config

-----------------------------------------------------------------------------
(* Properties of the identity key (SpecBook).                              *)

\* The name cell of the row the member at place i of an op was read from.
NameCell(op, i) == getCell(SheetOf(op), op.startRow + i, 0)

\* The identity key of a raw name: lowercased and trimmed.
KeyOf(raw) == toLowerCase(trim(raw.s))

\* The raw names of the rows of the ops.
RawNames ==
    UNION {{NameCell(ops[o], i) : i \in 1..Len(ops[o].members)} : o \in 1..Len(ops)}

\* C14: the member of a row with a name has the name, lowercased and
\* trimmed, as uniqueName and the name as it is as displayName; so the rows
\* whose names differ in letter case or in the white space around them are
\* one participant: there is one participant for each lowercased and trimmed
\* name.
C14_KeyLowercasedAndTrimmed ==
    pc \in {"loaded", "members", "member"} =>
        /\ \A o \in 1..Len(ops) : \A i \in 1..Len(ops[o].members) :
              Truthy(NameCell(ops[o], i)) =>
                  /\ Get(ops[o].members[i], "uniqueName") = Str(KeyOf(NameCell(ops[o], i)))
                  /\ Get(ops[o].members[i], "displayName") = NameCell(ops[o], i)
        /\ (pc = "members" /\ memberIdx > Len(memberSet)) =>
              DOMAIN members = {KeyOf(raw) : raw \in {r \in RawNames : Truthy(r)}}

-----------------------------------------------------------------------------
(* Further properties of the replay of one participant (SpecStreak).       *)

\* One op of the replay leaves a counter alone unless the participant is in
\* the op and the op is classified Passed or Failed for the category.
FrameStep(cat, counter, counterAfter, key, at) ==
    IF at = 0
    THEN /\ counterAfter = counter
         /\ members'[key] = members[key]
    ELSE /\ Class(LastLine(key), cat) = NoChange => counterAfter = counter
         /\ counterAfter # counter => Class(LastLine(key), cat) \in {Passed, Failed}
         /\ Len(members'[key].history) = Len(members[key].history) + 1

FrameSteps(key, at) ==
    /\ FrameStep("death", opsWithoutDeath, opsWithoutDeath', key, at)
    /\ FrameStep("bolter", opsWithoutBolter, opsWithoutBolter', key, at)

\* C15: in the replay of a participant an op changes a rolling counter only
\* if the participant is in the op and the op is classified Passed or Failed
\* for the category: an op the participant is absent from changes neither
\* counter and adds no narrative line, and a NoChange leaves the counter of
\* its category as it is (and adds a narrative line).
C15_CountersChangeOnEventsOnly ==
    [][pc = "member" =>
          FrameSteps(ToString(memberSet[memberIdx]),
                     getMember(ops[opIdx], memberSet[memberIdx]))]_vars

\* Mav after a clean op, an op they are absent from and an op with no death
\* logged: two narrative lines, and the death counter still the 1 of the
\* first op.
C15_Witness ==
    /\ pc = "done"
    /\ doc.cells = <<"PP", "absent", "NF">>
    /\ Len(members[kMav].history) = 2
    /\ members[kMav].history[2].death = NoChange
    /\ opsWithoutDeath = 1
    /\ opsWithoutBolter = 0

-----------------------------------------------------------------------------
(* Properties of the replay over sheets with config blocks (SpecBook).     *)

\* A rolling counter after an op, from the counter before the op, the raw
\* value of its category in the row of the participant and the flag of the
\* category in the config of the op.
CounterAfter(counter, value, flag) ==
    IF flag = Bool(FALSE) THEN counter
    ELSE IF ExpectedChange(value) = Failed THEN 0
    ELSE IF ExpectedChange(value) = NoChange THEN counter
    ELSE IF counter + 1 = Threshold THEN 0
    ELSE counter + 1

\* One op of the replay of a participant who is at place at of the op.
IndependentStep(op, member, key) ==
    /\ opsWithoutDeath' =
           CounterAfter(opsWithoutDeath, Get(member, "combatDeaths"), op.config.countDeaths)
    /\ opsWithoutBolter' =
           CounterAfter(opsWithoutBolter, Get(member, "bolters"), op.config.countBolters)
    /\ (/\ opsWithoutDeath = Threshold - 1
         /\ opsWithoutBolter = Threshold - 1
         /\ LastLine(key).death = Passed
         /\ LastLine(key).bolter = Passed) =>
            /\ Cardinality(EventsAdded("death")) = 1
            /\ Cardinality(EventsAdded("bolter")) = 1
            /\ \A i \in EventsAdded("death") \cup EventsAdded("bolter") :
                  achievementHistory'[i].op = op.name

\* C16: the two categories of an op are evaluated one without the other:
\* the death counter after the op is a function of the death counter before
\* it, the combat deaths of the row and countDeaths, the bolter counter one
\* of the bolter counter before it, the bolters of the row and countBolters;
\* when both counters reach 5 in one op, the op emits a no-death and a
\* no-bolter achievement.
C16_CategoriesIndependent ==
    [][(pc = "member" /\ getMember(ops[opIdx], memberSet[memberIdx]) # 0) =>
          IndependentStep(ops[opIdx],
                          ops[opIdx].members[getMember(ops[opIdx], memberSet[memberIdx])],
                          ToString(memberSet[memberIdx]))]_vars

\* Al after five clean ops of a sheet that counts both categories: the fifth
\* op has emitted both achievements.
C16_Witness ==
    /\ pc = "done"
    /\ runs = 1
    /\ Len(ops) = Threshold
    /\ Len(achievementHistory) = 2
    /\ achievementHistory[1].kind = "died"
    /\ achievementHistory[2].kind = "boltered"
    /\ achievementHistory[1].op = ops[Threshold].name
    /\ achievementHistory[2].op = ops[Threshold].name
    /\ opsWithoutDeath = 0
    /\ opsWithoutBolter = 0

\* The ops are in the order of the extraction: the sheets by index, the ops
\* of a sheet by header row.
InExtractionOrder ==
    \A o \in 1..Len(ops), q \in 1..Len(ops) :
        o < q =>
            \/ ops[o].sheet < ops[q].sheet
            \/ ops[o].sheet = ops[q].sheet /\ ops[o].startRow < ops[q].startRow

\* The lines the step adds to this.achievementHistory.
LinesAdded == (Len(achievementHistory) + 1)..Len(achievementHistory')

\* One op of the replay of a participant: the lines it adds are lines of
\* this op, after the lines there are, and the next op of the replay is the
\* next op of the extraction.
OrderedStep(key, at) ==
    /\ InExtractionOrder
    /\ SubSeq(achievementHistory', 1, Len(achievementHistory)) = achievementHistory
    /\ \A i \in LinesAdded : achievementHistory'[i].op = ops[opIdx].name
    /\ at # 0 =>
          /\ SubSeq(members'[key].history, 1, Len(members[key].history))
                 = members[key].history
          /\ Len(members'[key].history) = Len(members[key].history) + 1
          /\ LastLine(key).op = ops[opIdx].name
          /\ \A i \in LinesAdded :
                achievementHistory'[i].who = Get(ops[opIdx].members[at], "displayName")
    /\ at = 0 => LinesAdded = {}
    /\ pc' = "member" => (opIdx' = opIdx + 1 /\ memberIdx' = memberIdx)
    /\ pc' # "member" => opIdx = Len(ops)

\* C17: a participant is replayed over the ops in the order of the
\* extraction, the sheets by index and the ops of a sheet from the top: the
\* replay starts at the first op and goes from each op to the next, and each
\* op adds its narrative line and its lines of the achievement history after
\* the lines of the ops before it.
C17_ReplayInExtractionOrder ==
    [][/\ (pc = "members" /\ pc' = "member") =>
             (opIdx' = 1 /\ members'[ToString(memberSet[memberIdx])].history = <<>>)
       /\ pc = "member" =>
             OrderedStep(ToString(memberSet[memberIdx]),
                         getMember(ops[opIdx], memberSet[memberIdx]))]_vars

\* Al after two sheets of five clean ops: the achievements of the fifth op of
\* the first sheet, then those of the fifth op of the second sheet.
C17_Witness ==
    /\ pc = "done"
    /\ runs = 1
    /\ Len(ops) = 2 * Threshold
    /\ ops[Threshold + 1].startRow = 1
    /\ [i \in 1..Len(achievementHistory) |-> achievementHistory[i].op]
          = <<ops[Threshold].name, ops[Threshold].name,
              ops[2 * Threshold].name, ops[2 * Threshold].name>>
    /\ [i \in 1..Len(members[kAl].history) |-> members[kAl].history[i].op]
          = [o \in 1..Len(ops) |-> ops[o].name]

-----------------------------------------------------------------------------
(* Properties of the rows without a name and of the cell reads (Spec).     *)

\* C18: a row whose name cell is empty makes no participant: no entry of
\* this.members is made for an empty identity key, and no replay runs for
\* one, so that no counter advances and no line is added for it.
C18_NoStatsForEmptyKey ==
    /\ \A i \in 1..Len(memberSet) :
          EmptyKey(memberSet[i]) => ToString(memberSet[i]) \notin DOMAIN members
    /\ pc = "member" => ~EmptyKey(memberSet[memberIdx])

\* C19: every cell the extraction reads is a cell of the grid, the cell above
\* a header in row 0 and the cell right of a config key in the last column
\* included: getCell never refuses a read.
C19_ReadsInsideGrid == error # "OutOfBounds"

-----------------------------------------------------------------------------
(* The range of the rolling counters (SpecStreak).                         *)

\* C20: between the ops of a replay, and so after every op is processed,
\* both rolling counters are in 0..4: a counter that reaches 5 is reset in
\* the op that takes it there and a 5 is never carried into the next op.
C20_CountersInRange ==
    /\ opsWithoutDeath \in 0..4
    /\ opsWithoutBolter \in 0..4

\* Mav after six ops, the second with deaths and no trap logged: the sixth
\* op took the bolter counter to 5 and reset it, the death counter is 4.
C20_Witness ==
    /\ doc.cells = <<"PP", "FN", "PP", "PP", "PP", "PP">>
    /\ pc = "done"
    /\ Len(members[kMav].history) = 6
    /\ Awarded(members[kMav].history[6], "bolter")
    /\ opsWithoutBolter = 0
    /\ opsWithoutDeath = 4

=============================================================================
